---- MODULE Spec2Model ----
(***************************************************************************)
(* Model of appallowzk.py: a command-line run that validates its inputs,   *)
(* probes an RPC endpoint, reads ERC20 metadata and an allowance, formats   *)
(* the allowance, optionally compares it with an expected value, prints a   *)
(* report and exits with a status code.                                     *)
(*                                                                          *)
(* Python integers are unbounded and Python floats are IEEE-754 doubles.    *)
(* Both are modelled at full width: an integer is a little-endian sequence  *)
(* of limbs below Base, a float is a pair (m, e) standing for m * 2^e with  *)
(* m below 2^MantBits, and every float operation rounds to nearest, ties to *)
(* even, as the interpreter does.  Strings are sequences of one-character   *)
(* strings.                                                                 *)
(***************************************************************************)
EXTENDS Integers, Sequences, FiniteSets, TLC

(***************************************************************************)
(* Unbounded naturals (Python int, non-negative).                           *)
(***************************************************************************)
Base == 2^15

Max(a, b) == IF a >= b THEN a ELSE b

Min(a, b) == IF a <= b THEN a ELSE b

RECURSIVE Norm(_)
Norm(x) ==
  IF x = <<>> THEN <<>>
  ELSE IF x[Len(x)] = 0 THEN Norm(SubSeq(x, 1, Len(x) - 1))
  ELSE x

RECURSIVE FromInt(_)
FromInt(n) == IF n = 0 THEN <<>> ELSE <<n % Base>> \o FromInt(n \div Base)

RECURSIVE MulCarry(_, _, _)
MulCarry(x, c, carry) ==
  IF x = <<>> THEN FromInt(carry)
  ELSE LET t == x[1] * c + carry
       IN  <<t % Base>> \o MulCarry(Tail(x), c, t \div Base)

MulSmall(x, c) == Norm(MulCarry(x, c, 0))

RECURSIVE AddCarry(_, _, _)
AddCarry(x, y, carry) ==
  IF x = <<>> /\ y = <<>> THEN FromInt(carry)
  ELSE LET a == IF x = <<>> THEN 0 ELSE x[1]
           b == IF y = <<>> THEN 0 ELSE y[1]
           t == a + b + carry
       IN  <<t % Base>>
             \o AddCarry(IF x = <<>> THEN x ELSE Tail(x),
                         IF y = <<>> THEN y ELSE Tail(y), t \div Base)

Add(x, y) == Norm(AddCarry(x, y, 0))

AddSmall(x, c) == Add(x, FromInt(c))

RECURSIVE Mul(_, _)
Mul(x, y) ==
  IF x = <<>> \/ y = <<>> THEN <<>>
  ELSE Add(MulSmall(x, y[1]), Norm(<<0>> \o Mul(x, Tail(y))))

\* Quotient and remainder of x by a small c (1 <= c <= Base).
RECURSIVE DivRem(_, _)
DivRem(x, c) ==
  IF x = <<>> THEN [q |-> <<>>, r |-> 0]
  ELSE LET hi == DivRem(Tail(x), c)
           t  == hi.r * Base + x[1]
       IN  [q |-> <<t \div c>> \o hi.q, r |-> t % c]

RECURSIVE MulPow10(_, _)
MulPow10(x, d) == IF d = 0 \/ x = <<>> THEN x ELSE MulPow10(MulSmall(x, 10), d - 1)

Pow10(d) == MulPow10(<<1>>, d)

\* floor(x / 10^d), and whether anything was cut off.
RECURSIVE DivPow10(_, _)
DivPow10(x, d) ==
  IF d = 0 \/ x = <<>> THEN [q |-> x, sticky |-> FALSE]
  ELSE LET dr   == DivRem(x, 10)
           rest == DivPow10(Norm(dr.q), d - 1)
       IN  [q |-> rest.q, sticky |-> rest.sticky \/ dr.r # 0]

RECURSIVE BitLenSmall(_)
BitLenSmall(n) == IF n = 0 THEN 0 ELSE 1 + BitLenSmall(n \div 2)

BitLen(x) == IF x = <<>> THEN 0 ELSE 15 * (Len(x) - 1) + BitLenSmall(x[Len(x)])

ShiftLeft(x, n) ==
  IF x = <<>> THEN <<>>
  ELSE [i \in 1..(n \div 15) |-> 0] \o MulSmall(x, 2^(n % 15))

ShiftRight(x, n) ==
  IF n \div 15 >= Len(x) THEN <<>>
  ELSE Norm(DivRem(SubSeq(x, (n \div 15) + 1, Len(x)), 2^(n % 15)).q)

TestBit(x, i) ==
  /\ (i \div 15) + 1 <= Len(x)
  /\ (x[(i \div 15) + 1] \div 2^(i % 15)) % 2 = 1

\* x mod 2^n # 0
LowNonZero(x, n) ==
  \E k \in 1..Len(x) :
     \/ k <= n \div 15 /\ x[k] # 0
     \/ k = (n \div 15) + 1 /\ x[k] % 2^(n % 15) # 0

\* (x + f) / 2^n rounded to the nearest integer, ties to even, where f is a
\* fraction in [0, 1) that is non-zero exactly when sticky holds.
RoundShift(x, n, sticky) ==
  IF n = 0 THEN x
  ELSE LET q  == ShiftRight(x, n)
           g  == TestBit(x, n - 1)
           s  == sticky \/ LowNonZero(x, n - 1)
           up == g /\ (s \/ TestBit(q, 0))
       IN  IF up THEN AddSmall(q, 1) ELSE q

\* Decimal digits of x, most significant first (empty for zero).
RECURSIVE ToDigits(_)
ToDigits(x) ==
  IF x = <<>> THEN <<>>
  ELSE LET dr == DivRem(x, 10) IN ToDigits(Norm(dr.q)) \o <<dr.r>>

\* The number with decimal digits ds, most significant first, read left to
\* right onto acc.
RECURSIVE ReadDigits(_, _)
ReadDigits(ds, acc) ==
  IF ds = <<>> \/ Len(acc) < 0 THEN acc
  ELSE ReadDigits(Tail(ds), AddSmall(MulSmall(acc, 10), ds[1]))

FromDigits(ds) == ReadDigits(ds, <<>>)

(***************************************************************************)
(* IEEE-754 double (Python float): m * 2^e with m < 2^MantBits.             *)
(***************************************************************************)
MantBits == 53

\* (n + f) * 2^e rounded to MantBits significant bits.
MakeFloat(n, sticky, e) ==
  IF BitLen(n) <= MantBits THEN [m |-> n, e |-> e]
  ELSE LET cut == BitLen(n) - MantBits
           r   == RoundShift(n, cut, sticky)
       IN  IF BitLen(r) > MantBits
             THEN [m |-> ShiftRight(r, 1), e |-> e + cut + 1]
             ELSE [m |-> r, e |-> e + cut]

\* int / (10 ** d) and float("<digits of a>" with d fractional digits):
\* the double nearest to a / 10^d.
TrueDivPow10(a, d) ==
  IF a = <<>> THEN [m |-> <<>>, e |-> 0]
  ELSE LET s  == Max(0, MantBits + 2 + BitLen(Pow10(d)) - BitLen(a))
           dv == DivPow10(ShiftLeft(a, s), d)
       IN  MakeFloat(dv.q, dv.sticky, 0 - s)

IntToFloat(n) == MakeFloat(n, FALSE, 0)

FloatMul(x, y) == MakeFloat(Mul(x.m, y.m), FALSE, x.e + y.e)

\* round(x): nearest integer, ties to even.
FloatRound(x) ==
  IF x.e >= 0 THEN ShiftLeft(x.m, x.e) ELSE RoundShift(x.m, 0 - x.e, FALSE)

(***************************************************************************)
(* Strings: str(int), "{:.kf}".format(float), str.replace, float(str).      *)
(***************************************************************************)
DigitChars == <<"0", "1", "2", "3", "4", "5", "6", "7", "8", "9">>

IsDigit(c) == \E i \in 1..10 : DigitChars[i] = c

CharDigit(c) == (CHOOSE i \in 1..10 : DigitChars[i] = c) - 1

\* str(n)
IntStr(n) ==
  IF n = <<>> THEN <<"0">>
  ELSE [i \in 1..Len(ToDigits(n)) |-> DigitChars[ToDigits(n)[i] + 1]]

\* "{:.kf}".format(x) for k >= 1: x rounded to k fractional digits (ties to
\* even on the exact binary value), zero-padded.
FormatFixed(x, k) ==
  LET scaled == MulPow10(x.m, k)
      q      == IF x.e >= 0 THEN ShiftLeft(scaled, x.e)
                ELSE RoundShift(scaled, 0 - x.e, FALSE)
      ds     == ToDigits(q)
      pad    == [i \in 1..Max(0, k + 1 - Len(ds)) |-> 0] \o ds
      cs     == [i \in 1..Len(pad) |-> DigitChars[pad[i] + 1]]
  IN  SubSeq(cs, 1, Len(cs) - k) \o <<".">> \o SubSeq(cs, Len(cs) - k + 1, Len(cs))

\* s.replace(",", "")
StripCommas(s) == SelectSeq(s, LAMBDA c : c # ",")

\* The numerals float() accepts, over the modelled alphabet: digits with at
\* most one ".", at least one digit; and the words inf and nan.
IsDecimalNumeral(t) ==
  /\ \A i \in 1..Len(t) : IsDigit(t[i]) \/ t[i] = "."
  /\ Cardinality({i \in 1..Len(t) : t[i] = "."}) <= 1
  /\ \E i \in 1..Len(t) : IsDigit(t[i])

FracLen(t) ==
  IF \E i \in 1..Len(t) : t[i] = "."
    THEN Len(t) - (CHOOSE i \in 1..Len(t) : t[i] = ".")
    ELSE 0

DigitsOf(t) ==
  LET ds == SelectSeq(t, IsDigit) IN [i \in 1..Len(ds) |-> CharDigit(ds[i])]

NoFloat == [m |-> <<>>, e |-> 0]

\* float(t): ok is FALSE where Python raises ValueError.
PyFloat(t) ==
  IF t = <<"i", "n", "f">> THEN [ok |-> TRUE, kind |-> "inf", val |-> NoFloat]
  ELSE IF t = <<"n", "a", "n">> THEN [ok |-> TRUE, kind |-> "nan", val |-> NoFloat]
  ELSE IF IsDecimalNumeral(t)
    THEN [ok |-> TRUE, kind |-> "finite",
          val |-> TrueDivPow10(FromDigits(DigitsOf(t)), FracLen(t))]
  ELSE [ok |-> FALSE, kind |-> "error", val |-> NoFloat]

(***************************************************************************)
(* The program's conversions.                                               *)
(***************************************************************************)
MaxFracDigits == 18

human_amount(amount_wei, decimals) ==
  IF decimals <= 0 THEN IntStr(amount_wei)
  ELSE FormatFixed(TrueDivPow10(amount_wei, decimals), Min(decimals, MaxFracDigits))

\* Lines 132-133: float(expected.replace(",", "")) * 10 ** decimals, rounded
\* and converted to int.  ok is FALSE where an exception is raised: float()
\* rejects the string, or round() is given an infinity or a NaN.
expected_to_raw(expected, decimals) ==
  LET f == PyFloat(StripCommas(expected))
  IN  IF f.ok /\ f.kind = "finite"
        THEN [ok |-> TRUE,
              raw |-> FloatRound(FloatMul(f.val, IntToFloat(Pow10(decimals))))]
        ELSE [ok |-> FALSE, raw |-> <<>>]

(***************************************************************************)
(* Addresses.  An address string is valid when it is AddrHexLen hex digits  *)
(* with an optional 0x prefix and, if its letters are of mixed case, it is  *)
(* its own checksum form.  The checksum form is 0x followed by the          *)
(* lowercase digits with each letter raised where the digest nibble at its  *)
(* position is 8 or more.  Digest stands for Keccak-256 of the lowercase    *)
(* digits: a fixed function of them, not the real hash.                     *)
(***************************************************************************)
AddrHexLen == 40

HexLower == <<"0", "1", "2", "3", "4", "5", "6", "7", "8", "9",
              "a", "b", "c", "d", "e", "f">>

HexUpper == <<"0", "1", "2", "3", "4", "5", "6", "7", "8", "9",
              "A", "B", "C", "D", "E", "F">>

HexChars == {HexLower[i] : i \in 1..16} \cup {HexUpper[i] : i \in 1..16}

IsHexChar(c) == c \in HexChars

HexValues ==
  [c \in HexChars |-> (CHOOSE i \in 1..16 : HexLower[i] = c \/ HexUpper[i] = c) - 1]

HexValue(c) == HexValues[c]

IsLowerLetter(c) == \E i \in 11..16 : HexLower[i] = c

IsUpperLetter(c) == \E i \in 11..16 : HexUpper[i] = c

StartsWith(s, prefix) ==
  Len(s) >= Len(prefix) /\ SubSeq(s, 1, Len(prefix)) = prefix

Remove0x(s) == IF StartsWith(s, <<"0", "x">>) THEN SubSeq(s, 3, Len(s)) ELSE s

ToLowerHex(s) == [i \in 1..Len(s) |-> HexLower[HexValue(s[i]) + 1]]

\* Nibble i of the stand-in digest of the lowercase digits ds.
Digest(ds, i) == (HexValue(ds[i]) * 7 + HexValue(ds[((i * 3) % Len(ds)) + 1]) + i) % 16

\* The lowercase digits ds with the letters raised that the digest selects.
ChecksumCase(ds) ==
  [i \in 1..Len(ds) |->
     IF Digest(ds, i) >= 8 THEN HexUpper[HexValue(ds[i]) + 1] ELSE ds[i]]

\* Web3.to_checksum_address on a string of hex digits.
to_checksum_address(addr) ==
  <<"0", "x">> \o ChecksumCase(ToLowerHex(Remove0x(addr)))

\* Web3.is_address
is_address(addr) ==
  LET body == Remove0x(addr)
  IN  /\ Len(body) = AddrHexLen
      /\ \A i \in 1..Len(body) : IsHexChar(body[i])
      /\ \/ ~ \E i \in 1..Len(body) : IsLowerLetter(body[i])
         \/ ~ \E i \in 1..Len(body) : IsUpperLetter(body[i])
         \/ <<"0", "x">> \o body = to_checksum_address(addr)

\* Mutant: the address is passed on without validation.
to_checksum_or_die_unchecked(addr) == [ok |-> TRUE, value |-> addr]

\* ok is FALSE where ValueError is raised.
to_checksum_or_die(addr) ==
  IF ~ is_address(addr) THEN [ok |-> FALSE, value |-> <<>>]
  ELSE [ok |-> TRUE, value |-> to_checksum_address(addr)]

(***************************************************************************)
(* Contract reads.                                                          *)
(***************************************************************************)
DefaultDecimals == 18

\* Each of name, symbol, decimals is r.<field> = [ok, value]: the outcome of
\* its call.  A failed call leaves the default in place.
fetch_erc20_meta(r) ==
  [name     |-> IF r.name.ok THEN r.name.value ELSE "Unknown",
   symbol   |-> IF r.symbol.ok THEN r.symbol.value ELSE "???",
   decimals |-> IF r.decimals.ok THEN r.decimals.value ELSE DefaultDecimals]

\* Mutant: a failed allowance call is treated like a failed metadata call,
\* with 0 as the default.
get_allowance_best_effort(outcome, value) ==
  [ok |-> TRUE, value |-> IF outcome = "ok" THEN value ELSE <<>>, error |-> ""]

\* outcome is "ok", or the exception the call raised.  Every exception is
\* re-raised as RuntimeError with one of two messages.
get_allowance(outcome, value) ==
  IF outcome = "ok" THEN [ok |-> TRUE, value |-> value, error |-> ""]
  ELSE IF outcome \in {"BadFunctionCallOutput", "ContractLogicError"}
    THEN [ok |-> FALSE, value |-> <<>>,
          error |-> "Allowance call failed (is this a valid ERC20?)"]
  ELSE [ok |-> FALSE, value |-> <<>>, error |-> "Failed to fetch allowance"]

\* Mutant: the warning condition is inverted.
zero_warning_inverted(raw) == raw # <<>>

\* Lines 123-124: whether the zero-allowance warning is printed.
zero_warning_due(raw) == raw = <<>>

\* Mutant: an expected value that cannot be converted counts as a mismatch.
compare_expected_strict(expected, decimals, raw) ==
  IF expected = <<>>
    THEN [matched |-> "None", expected_raw |-> <<>>, lines |-> <<>>]
  ELSE LET conv == expected_to_raw(expected[1], decimals)
       IN  IF conv.ok
             THEN [matched      |-> IF conv.raw = raw THEN "True" ELSE "False",
                   expected_raw |-> <<conv.raw>>,
                   lines        |-> <<"expected",
                                      IF conv.raw = raw THEN "MATCH" ELSE "MISMATCH">>]
             ELSE [matched |-> "False", expected_raw |-> <<>>,
                   lines |-> <<"parse_warning">>]

\* Mutant: the expected value is converted with 18 decimals whatever the
\* token's decimals are.
compare_expected_fixed_decimals(expected, decimals, raw) ==
  IF expected = <<>>
    THEN [matched |-> "None", expected_raw |-> <<>>, lines |-> <<>>]
  ELSE LET conv == expected_to_raw(expected[1], DefaultDecimals)
       IN  IF conv.ok
             THEN [matched      |-> IF conv.raw = raw THEN "True" ELSE "False",
                   expected_raw |-> <<conv.raw>>,
                   lines        |-> <<"expected",
                                      IF conv.raw = raw THEN "MATCH" ELSE "MISMATCH">>]
             ELSE [matched |-> "None", expected_raw |-> <<>>,
                   lines |-> <<"parse_warning">>]

\* Lines 126-138: the verdict, the converted value and the lines printed for
\* --expected (<<>> when absent, else <<string>>).
compare_expected(expected, decimals, raw) ==
  IF expected = <<>>
    THEN [matched |-> "None", expected_raw |-> <<>>, lines |-> <<>>]
  ELSE LET conv == expected_to_raw(expected[1], decimals)
       IN  IF conv.ok
             THEN [matched      |-> IF conv.raw = raw THEN "True" ELSE "False",
                   expected_raw |-> <<conv.raw>>,
                   lines        |-> <<"expected",
                                      IF conv.raw = raw THEN "MATCH" ELSE "MISMATCH">>]
             ELSE [matched |-> "None", expected_raw |-> <<>>,
                   lines |-> <<"parse_warning">>]

\* Mutant: "if not matched" for "if matched is False".
exit_status_falsy(is_match) == IF is_match # "True" THEN 2 ELSE 0

\* Lines 167-170.
exit_status(is_match) == IF is_match = "False" THEN 2 ELSE 0

(***************************************************************************)
(* Inputs.                                                                  *)
(***************************************************************************)
Chars(str) ==
  CASE str = "http"  -> <<"h", "t", "t", "p", ":", "/", "/", "n">>
    [] str = "https" -> <<"h", "t", "t", "p", "s", ":", "/", "/", "n">>
    [] str = "ftp"   -> <<"f", "t", "p", ":", "/", "/", "e", "x", "a", "m", "p",
                          "l", "e", ".", "c", "o", "m">>

\* Forty lowercase hex digits that depend on seed.
LowerDigits(seed) == [i \in 1..AddrHexLen |-> HexLower[((i * seed + 10) % 16) + 1]]

SwapCase(s) ==
  [i \in 1..Len(s) |->
     IF IsLowerLetter(s[i]) THEN HexUpper[HexValue(s[i]) + 1]
     ELSE IF IsUpperLetter(s[i]) THEN HexLower[HexValue(s[i]) + 1]
     ELSE s[i]]

\* A valid address without prefix in lowercase, the same in checksum form,
\* a mixed-case one that is not its checksum form, one a digit short, and
\* one with a character that is no hex digit.
AddrInputs(seed) ==
  { LowerDigits(seed),
    to_checksum_address(LowerDigits(seed)),
    <<"0", "x">> \o SwapCase(Remove0x(to_checksum_address(LowerDigits(seed)))),
    <<"0", "x">> \o Tail(LowerDigits(seed)),
    <<"0", "x", "g">> \o Tail(LowerDigits(seed)) }

Well(seed) == LowerDigits(seed)

\* Command lines: rpc, token, owner and spender vary one at a time around a
\* well-formed command line.
ValidationInputs ==
  { v \in [rpc : {Chars("http"), Chars("https"), Chars("ftp")},
           token : AddrInputs(3), owner : AddrInputs(5), spender : AddrInputs(7)] :
      Cardinality({f \in {"rpc", "token", "owner", "spender"} :
                     v[f] # [rpc |-> Chars("https"), token |-> Well(3),
                             owner |-> Well(5), spender |-> Well(7)][f]}) <= 1 }

\* --expected: absent (<<>>) or <<string>>.
ExpectedInputs ==
  { <<>>,
    << <<"1", "0", "0", ".", "5">> >>,
    << <<"1">> >>,
    << <<"1", ".", "2", ".", "3">> >>,
    << <<"i", "n", "f">> >> }

ArgsInputs ==
  { [rpc |-> v.rpc, token |-> v.token, owner |-> v.owner, spender |-> v.spender,
     block |-> "latest", expected |-> e, json |-> j] :
      v \in ValidationInputs, e \in ExpectedInputs, j \in BOOLEAN }

\* What decimals() and allowance() of the deployed contract may return.
DecimalsValues == {0, 6, 18}

\* 0, 10^6, 10^18 + 1 (formatted like 10^18), 100 * 10^18 and 100.5 * 10^18.
AllowanceValues ==
  { <<>>, Pow10(6), AddSmall(Pow10(18), 1), MulPow10(FromInt(100), 18),
    MulPow10(FromInt(1005), 17) }

AllowanceOutcomes == {"ok", "ContractLogicError", "BadFunctionCallOutput", "Timeout"}

(***************************************************************************)
(* The run of main.                                                         *)
(***************************************************************************)
VARIABLES
  args,           \* the parsed command line
  pc,             \* position in main
  log,            \* what the run has done so far, in order
  token,          \* checksum form of args.token, once validated
  owner,
  spender,
  meta,           \* result of fetch_erc20_meta
  true_decimals,  \* what decimals() of the contract returns when it succeeds
  raw_allow,
  human_allow,
  matched,        \* "None", "True", "False"
  expected_raw,   \* <<>> (None) or <<integer>>
  doc,            \* <<>> or <<the JSON document>>
  exit_code,      \* <<>> while running, <<status>> once exited
  rt              \* the conversion round trip (its own specification)

vars == <<args, pc, log, token, owner, spender, meta, true_decimals, raw_allow,
          human_allow, matched, expected_raw, doc, exit_code, rt>>

\* One thing the run did: a check of an argument, a network operation (ok:
\* whether it succeeded; args: the addresses passed), a conversion, or a
\* printed line; line is the source line that did it.
Event(kind, what, line, ok, a) ==
  [kind |-> kind, what |-> what, line |-> line, ok |-> ok, args |-> a]

Checked(what, line, ok) == Event("check", what, line, ok, <<>>)

Printed(what, line) == Event("print", what, line, TRUE, <<>>)

NetCall(what, line, ok, a) == Event("net", what, line, ok, a)

Converted(what, line, ok) == Event("format", what, line, ok, <<>>)

RtIdle == [pc |-> "idle", raw |-> <<>>, d |-> 0, human |-> <<>>,
           back |-> [ok |-> FALSE, raw |-> <<>>]]

NoMeta == [name |-> "", symbol |-> "", decimals |-> 0]

Init ==
  /\ args \in ArgsInputs
  /\ pc = "check_rpc"
  /\ log = <<>>
  /\ token = <<>>
  /\ owner = <<>>
  /\ spender = <<>>
  /\ meta = NoMeta
  /\ true_decimals = 0
  /\ raw_allow = <<>>
  /\ human_allow = <<>>
  /\ matched = "None"
  /\ expected_raw = <<>>
  /\ doc = <<>>
  /\ exit_code = <<>>
  /\ rt = RtIdle

\* Mutant: the error is printed and the failed step is tried again.
DieAndRetry(events, status) ==
  /\ log' = log \o events
  /\ exit_code' = <<status>>
  /\ pc' = pc

\* print(error); sys.exit(status)
Die(events, status) ==
  /\ log' = log \o events
  /\ exit_code' = <<status>>
  /\ pc' = "done"

\* Line 80.
rpc_ok(url) ==
  \/ StartsWith(url, <<"h", "t", "t", "p", ":", "/", "/">>)
  \/ StartsWith(url, <<"h", "t", "t", "p", "s", ":", "/", "/">>)

\* Lines 80-82.
CheckRpc ==
  /\ pc = "check_rpc"
  /\ IF rpc_ok(args.rpc)
       THEN /\ log' = Append(log, Checked("rpc", 80, TRUE))
            /\ pc' = "addresses"
            /\ UNCHANGED exit_code
       ELSE Die(<<Checked("rpc", 80, FALSE), Printed("error_rpc", 81)>>, 1)
  /\ UNCHANGED <<args, token, owner, spender, meta, true_decimals, raw_allow,
                 human_allow, matched, expected_raw, doc, rt>>

\* Lines 85-91: the first invalid address raises, and nothing after it runs.
ValidateAddresses ==
  /\ pc = "addresses"
  /\ LET t == to_checksum_or_die(args.token)
         o == to_checksum_or_die(args.owner)
         s == to_checksum_or_die(args.spender)
         checks == <<Checked("token", 86, t.ok)>>
                   \o (IF t.ok THEN <<Checked("owner", 87, o.ok)>> ELSE <<>>)
                   \o (IF t.ok /\ o.ok THEN <<Checked("spender", 88, s.ok)>> ELSE <<>>)
     IN  IF t.ok /\ o.ok /\ s.ok
           THEN /\ token' = t.value
                /\ owner' = o.value
                /\ spender' = s.value
                /\ log' = log \o checks
                /\ pc' = "connect"
                /\ UNCHANGED exit_code
           ELSE /\ Die(checks \o <<Printed("error_address", 90)>>, 1)
                /\ UNCHANGED <<token, owner, spender>>
  /\ UNCHANGED <<args, meta, true_decimals, raw_allow, human_allow, matched,
                 expected_raw, doc, rt>>

\* Lines 93-96.
Connect ==
  /\ pc = "connect"
  /\ \E up \in BOOLEAN :
       IF up
         THEN /\ log' = Append(log, NetCall("is_connected", 94, TRUE, <<>>))
              /\ pc' = "meta"
              /\ UNCHANGED exit_code
         ELSE Die(<<NetCall("is_connected", 94, FALSE, <<>>),
                    Printed("error_connection", 95)>>, 1)
  /\ UNCHANGED <<args, token, owner, spender, meta, true_decimals, raw_allow,
                 human_allow, matched, expected_raw, doc, rt>>

\* Lines 98-99: the three calls of fetch_erc20_meta, each of which may fail.
FetchMeta ==
  /\ pc = "meta"
  /\ \E okName \in BOOLEAN, okSymbol \in BOOLEAN, okDecimals \in BOOLEAN,
        d \in DecimalsValues :
       /\ meta' = fetch_erc20_meta(
                    [name     |-> [ok |-> okName, value |-> "Dai Stablecoin"],
                     symbol   |-> [ok |-> okSymbol, value |-> "DAI"],
                     decimals |-> [ok |-> okDecimals, value |-> d]])
       /\ true_decimals' = d
       /\ log' = log \o <<NetCall("name", 34, okName, <<token>>),
                          NetCall("symbol", 38, okSymbol, <<token>>),
                          NetCall("decimals", 42, okDecimals, <<token>>)>>
  /\ pc' = "header"
  /\ UNCHANGED <<args, token, owner, spender, raw_allow, human_allow, matched,
                 expected_raw, doc, exit_code, rt>>

\* Lines 101-110.
PrintHeader ==
  /\ pc = "header"
  /\ \E chainOk \in BOOLEAN :
       log' = log \o <<Printed("banner", 101), NetCall("chain_id", 103, chainOk, <<>>)>>
                  \o (IF chainOk THEN <<Printed("chain_id", 103)>> ELSE <<>>)
                  \o <<Printed("rpc", 106), Printed("block", 107), Printed("token", 108),
                       Printed("owner", 109), Printed("spender", 110)>>
  /\ pc' = "allowance"
  /\ UNCHANGED <<args, token, owner, spender, meta, true_decimals, raw_allow,
                 human_allow, matched, expected_raw, doc, exit_code, rt>>

\* Lines 112-117.
FetchAllowance ==
  /\ pc = "allowance"
  /\ \E outcome \in AllowanceOutcomes, value \in AllowanceValues :
       LET r    == get_allowance(outcome, value)
           call == NetCall("allowance", 114, outcome = "ok", <<token, owner, spender>>)
       IN  IF r.ok
             THEN /\ raw_allow' = r.value
                  /\ log' = Append(log, call)
                  /\ pc' = "format"
                  /\ UNCHANGED exit_code
             ELSE /\ Die(<<call, Printed(r.error, 116)>>, 2)
                  /\ UNCHANGED raw_allow
  /\ UNCHANGED <<args, token, owner, spender, meta, true_decimals, human_allow,
                 matched, expected_raw, doc, rt>>

\* Lines 119-124.
FormatAndPrint ==
  /\ pc = "format"
  /\ human_allow' = human_amount(raw_allow, meta.decimals)
  /\ log' = log \o <<Converted("human_amount", 119, TRUE),
                     Printed("raw", 120), Printed("human", 121)>>
                \o (IF zero_warning_due(raw_allow)
                      THEN <<Printed("zero_warning", 124)>> ELSE <<>>)
  /\ pc' = "expected"
  /\ UNCHANGED <<args, token, owner, spender, meta, true_decimals, raw_allow,
                 matched, expected_raw, doc, exit_code, rt>>

\* Lines 126-138.
CompareExpected ==
  /\ pc = "expected"
  /\ LET c == compare_expected(args.expected, meta.decimals, raw_allow)
     IN  /\ matched' = c.matched
         /\ expected_raw' = c.expected_raw
         /\ log' = log
              \o (IF args.expected = <<>> THEN <<>>
                  ELSE <<Converted("expected_to_raw", 133,
                                   c.lines # <<"parse_warning">>)>>)
              \o (IF c.lines = <<"parse_warning">> THEN <<Printed("parse_warning", 138)>>
                  ELSE IF c.lines = <<>> THEN <<>>
                  ELSE <<Printed(c.lines[1], 135), Printed(c.lines[2], 136)>>)
  /\ pc' = "elapsed"
  /\ UNCHANGED <<args, token, owner, spender, meta, true_decimals, raw_allow,
                 human_allow, doc, exit_code, rt>>

\* Lines 140-141.
PrintElapsed ==
  /\ pc = "elapsed"
  /\ log' = Append(log, Printed("elapsed", 141))
  /\ pc' = "json"
  /\ UNCHANGED <<args, token, owner, spender, meta, true_decimals, raw_allow,
                 human_allow, matched, expected_raw, doc, exit_code, rt>>

\* Mutant: chain_id is filled in whether or not the query succeeded.
json_document_chain_always(chain) ==
  [rpc             |-> args.rpc,
   chain_id        |-> <<chain.value>>,
   token           |-> token,
   token_name      |-> meta.name,
   token_symbol    |-> meta.symbol,
   decimals        |-> meta.decimals,
   owner           |-> owner,
   spender         |-> spender,
   block           |-> args.block,
   allowance_raw   |-> raw_allow,
   allowance_human |-> human_allow,
   expected_human  |-> args.expected,
   expected_raw    |-> expected_raw,
   match           |-> matched]

\* Lines 144-164: the document; chain is the outcome of the chain-id query
\* made for it.
json_document(chain) ==
  [rpc             |-> args.rpc,
   chain_id        |-> IF chain.ok THEN <<chain.value>> ELSE <<>>,
   token           |-> token,
   token_name      |-> meta.name,
   token_symbol    |-> meta.symbol,
   decimals        |-> meta.decimals,
   owner           |-> owner,
   spender         |-> spender,
   block           |-> args.block,
   allowance_raw   |-> raw_allow,
   allowance_human |-> human_allow,
   expected_human  |-> args.expected,
   expected_raw    |-> expected_raw,
   match           |-> matched]

\* Lines 143-165.
EmitJson ==
  /\ pc = "json"
  /\ IF args.json
       THEN \E chainOk \in BOOLEAN :
              /\ doc' = <<json_document([ok |-> chainOk, value |-> 1])>>
              /\ log' = log \o <<NetCall("chain_id", 162, chainOk, <<>>),
                                 Printed("json", 165)>>
       ELSE UNCHANGED <<doc, log>>
  /\ pc' = "exit"
  /\ UNCHANGED <<args, token, owner, spender, meta, true_decimals, raw_allow,
                 human_allow, matched, expected_raw, exit_code, rt>>

\* Lines 167-170.
Exit ==
  /\ pc = "exit"
  /\ exit_code' = <<exit_status(matched)>>
  /\ pc' = "done"
  /\ UNCHANGED <<args, log, token, owner, spender, meta, true_decimals, raw_allow,
                 human_allow, matched, expected_raw, doc, rt>>

Next ==
  \/ CheckRpc
  \/ ValidateAddresses
  \/ Connect
  \/ FetchMeta
  \/ PrintHeader
  \/ FetchAllowance
  \/ FormatAndPrint
  \/ CompareExpected
  \/ PrintElapsed
  \/ EmitJson
  \/ Exit

Spec == Init /\ [][Next]_vars

(***************************************************************************)
(* The conversions on their own: an amount is formatted with human_amount   *)
(* and the string is converted back as --expected would be.                 *)
(***************************************************************************)
MaxOffset == 3

\* 2^256 - 1
UintMax == [i \in 1..17 |-> Base - 1] \o <<1>>

RoundTripRaws ==
  { Add(b, FromInt(j)) :
      b \in { <<>>, Pow10(6), ShiftLeft(<<1>>, MantBits), ShiftLeft(<<1>>, MantBits + 1),
              Pow10(18), MulPow10(FromInt(1005), 17),
              FromDigits(<<1, 2, 3, 4, 5, 6, 7, 8, 9, 0, 1, 2, 3, 4, 5, 6, 7, 5>>) },
      j \in 0..MaxOffset }
  \cup {UintMax}

RoundTripDecimals == 0..MaxFracDigits

InitRoundTrip ==
  /\ args = [rpc |-> <<>>, token |-> <<>>, owner |-> <<>>, spender |-> <<>>,
             block |-> "latest", expected |-> <<>>, json |-> FALSE]
  /\ pc = "idle"
  /\ log = <<>>
  /\ token = <<>>
  /\ owner = <<>>
  /\ spender = <<>>
  /\ meta = NoMeta
  /\ true_decimals = 0
  /\ raw_allow = <<>>
  /\ human_allow = <<>>
  /\ matched = "None"
  /\ expected_raw = <<>>
  /\ doc = <<>>
  /\ exit_code = <<>>
  /\ \E r \in RoundTripRaws, d \in RoundTripDecimals :
       rt = [RtIdle EXCEPT !.pc = "start", !.raw = r, !.d = d]

RtFormat ==
  /\ rt.pc = "start"
  /\ rt' = [rt EXCEPT !.pc = "formatted", !.human = human_amount(rt.raw, rt.d)]
  /\ UNCHANGED <<args, pc, log, token, owner, spender, meta, true_decimals,
                 raw_allow, human_allow, matched, expected_raw, doc, exit_code>>

RtParse ==
  /\ rt.pc = "formatted"
  /\ rt' = [rt EXCEPT !.pc = "done", !.back = expected_to_raw(rt.human, rt.d)]
  /\ UNCHANGED <<args, pc, log, token, owner, spender, meta, true_decimals,
                 raw_allow, human_allow, matched, expected_raw, doc, exit_code>>

NextRoundTrip == RtFormat \/ RtParse

SpecRoundTrip == InitRoundTrip /\ [][NextRoundTrip]_vars

(***************************************************************************)
(* Properties.                                                              *)
(***************************************************************************)
Did(kind, what) ==
  \E i \in DOMAIN log : log[i].kind = kind /\ log[i].what = what

Failed(kind, what) ==
  \E i \in DOMAIN log : log[i].kind = kind /\ log[i].what = what /\ ~ log[i].ok

Count(kind, what) ==
  Cardinality({i \in DOMAIN log : log[i].kind = kind /\ log[i].what = what})

Pos(kind, what) ==
  CHOOSE i \in DOMAIN log : log[i].kind = kind /\ log[i].what = what

BadInput ==
  \/ ~ rpc_ok(args.rpc)
  \/ ~ is_address(args.token)
  \/ ~ is_address(args.owner)
  \/ ~ is_address(args.spender)

AllowanceFetched == Did("net", "allowance") /\ ~ Failed("net", "allowance")

ExpectedParses ==
  args.expected # <<>> /\ expected_to_raw(args.expected[1], meta.decimals).ok

ExpectedUnparsable ==
  args.expected # <<>> /\ ~ expected_to_raw(args.expected[1], meta.decimals).ok

ExpectedDiffers ==
  ExpectedParses /\ expected_to_raw(args.expected[1], meta.decimals).raw # raw_allow

ResultLines ==
  {"raw", "human", "zero_warning", "expected", "MATCH", "MISMATCH", "parse_warning",
   "elapsed", "json"}

\* C1: the run has no exit code until it ends, and it ends with exactly the
\* code its outcome determines: 1 for a bad RPC URL, an invalid address or a
\* failed connection probe; 2 for a failed allowance call or an expected
\* value that parses and differs from the raw allowance; 0 otherwise.
C1_ExitCodeByOutcome ==
  /\ pc # "done" => exit_code = <<>>
  /\ pc = "done" =>
       exit_code = << IF BadInput \/ Failed("net", "is_connected") THEN 1
                      ELSE IF Failed("net", "allowance") \/ ExpectedDiffers THEN 2
                      ELSE 0 >>

C1_Witness ==
  /\ pc = "done"
  /\ exit_code = <<2>>
  /\ AllowanceFetched
  /\ ExpectedDiffers

\* a is a valid address in checksum form with the digits of the argument.
IsNormalFormOf(a, arg) ==
  /\ StartsWith(a, <<"0", "x">>)
  /\ Len(a) = AddrHexLen + 2
  /\ \A i \in 3..Len(a) : IsHexChar(a[i])
  /\ a = to_checksum_address(a)
  /\ ToLowerHex(Remove0x(a)) = ToLowerHex(Remove0x(arg))

\* C2: with a bad RPC URL or an invalid address the run never makes a network
\* call and ends with exit code 1; and every address passed to a contract
\* call is the checksum form of the validated argument.
C2_ValidationBeforeNetwork ==
  /\ BadInput =>
       /\ \A i \in DOMAIN log : log[i].kind # "net"
       /\ pc \in {"check_rpc", "addresses", "done"}
       /\ pc = "done" => exit_code = <<1>>
  /\ \A i \in DOMAIN log :
       log[i].kind = "net" /\ log[i].args # <<>> =>
         /\ log[i].args \in {<<token>>, <<token, owner, spender>>}
         /\ log[i].what = "allowance" <=> Len(log[i].args) = 3
  /\ (\E i \in DOMAIN log : log[i].kind = "net" /\ log[i].args # <<>>) =>
       /\ IsNormalFormOf(token, args.token)
       /\ IsNormalFormOf(owner, args.owner)
       /\ IsNormalFormOf(spender, args.spender)

C2_Witness ==
  /\ pc = "done"
  /\ rpc_ok(args.rpc)
  /\ is_address(args.token)
  /\ ~ is_address(args.owner)
  /\ exit_code = <<1>>
  /\ \A i \in DOMAIN log : log[i].kind # "net"

\* The part of C3 about the fields: all three calls are made, each failed
\* field has its default, each successful field the returned value, and the
\* run goes on to the header and the allowance call.
C3_FieldsIsolated ==
  Did("net", "name") =>
    /\ Count("net", "name") = 1
    /\ Count("net", "symbol") = 1
    /\ Count("net", "decimals") = 1
    /\ meta.name = IF Failed("net", "name") THEN "Unknown" ELSE "Dai Stablecoin"
    /\ meta.symbol = IF Failed("net", "symbol") THEN "???" ELSE "DAI"
    /\ meta.decimals = IF Failed("net", "decimals") THEN 18 ELSE true_decimals
    /\ pc # "done" \/ Did("net", "allowance")

\* The exit code of the same run had every metadata call succeeded.
ExitWithMetadata ==
  IF Failed("net", "allowance") THEN 2
  ELSE IF /\ args.expected # <<>>
          /\ expected_to_raw(args.expected[1], true_decimals).ok
          /\ expected_to_raw(args.expected[1], true_decimals).raw # raw_allow
    THEN 2
  ELSE 0

\* C3: fetch_erc20_meta is failure-isolated per field, the run continues to
\* the allowance call, and a metadata failure never changes the exit code:
\* the run ends with the code it would have ended with had the metadata
\* calls succeeded.
C3_MetadataFailureKeepsExitCode ==
  /\ C3_FieldsIsolated
  /\ pc = "done" /\ Did("net", "name") => exit_code = <<ExitWithMetadata>>

\* C4: a failed allowance call ends the run at once with exit code 2 and the
\* failure reason as the last line: no allowance, warning, verdict or
\* elapsed line, no conversion and no JSON document.
C4_AllowanceFailureAborts ==
  Failed("net", "allowance") =>
    /\ pc = "done"
    /\ exit_code = <<2>>
    /\ log[Len(log)].kind = "print"
    /\ log[Len(log)].line = 116
    /\ log[Len(log)].what \in {"Allowance call failed (is this a valid ERC20?)",
                               "Failed to fetch allowance"}
    /\ log[Len(log) - 1].kind = "net"
    /\ log[Len(log) - 1].what = "allowance"
    /\ \A i \in DOMAIN log :
         /\ log[i].kind # "format"
         /\ log[i].kind = "print" => log[i].what \notin ResultLines
    /\ doc = <<>>
    /\ human_allow = <<>>

C4_Witness ==
  /\ Failed("net", "allowance")
  /\ args.json
  /\ args.expected # <<>>
  /\ pc = "done"
  /\ exit_code = <<2>>

\* C5: when --expected is given and cannot be converted, no verdict is
\* printed, expected_raw and match stay null (in the report too), the run
\* goes on to the elapsed line and the JSON document, and exits with 0.
C5_ParseFailureSkipsComparison ==
  pc \in {"elapsed", "json", "exit", "done"} /\ AllowanceFetched /\ ExpectedUnparsable =>
    /\ \A w \in {"expected", "MATCH", "MISMATCH"} : ~ Did("print", w)
    /\ matched = "None"
    /\ expected_raw = <<>>
    /\ doc # <<>> => doc[1].expected_raw = <<>> /\ doc[1].match = "None"
    /\ pc \in {"exit", "done"} =>
         /\ Did("print", "elapsed")
         /\ args.json => doc # <<>> /\ Did("print", "json")
    /\ pc = "done" => exit_code = <<0>>

C5_Witness ==
  /\ pc = "done"
  /\ AllowanceFetched
  /\ ExpectedUnparsable
  /\ args.json
  /\ doc # <<>>
  /\ exit_code = <<0>>

Hundred == MulPow10(FromInt(100), 18)

HundredAndHalf == MulPow10(FromInt(1005), 17)

\* C6: an expected value that parses is converted with the decimals the
\* allowance was formatted with, and the verdict is exact equality of the
\* converted integer and the raw allowance: MATCH and exit code 0 when they
\* are equal, MISMATCH and exit code 2 otherwise; with 18 decimals and
\* expected 100.5, raw 100500000000000000000 is a MATCH and raw
\* 100000000000000000000 a MISMATCH.
C6_VerdictByRawEquality ==
  pc \in {"elapsed", "json", "exit", "done"} /\ AllowanceFetched /\ ExpectedParses =>
    LET want == expected_to_raw(args.expected[1], meta.decimals).raw
    IN  /\ expected_raw = <<want>>
        /\ human_allow = human_amount(raw_allow, meta.decimals)
        /\ matched = IF want = raw_allow THEN "True" ELSE "False"
        /\ Did("print", "MATCH") <=> want = raw_allow
        /\ Did("print", "MISMATCH") <=> want # raw_allow
        /\ pc = "done" => exit_code = << IF want = raw_allow THEN 0 ELSE 2 >>
        /\ meta.decimals = 18 /\ args.expected[1] = <<"1", "0", "0", ".", "5">> =>
             /\ want = HundredAndHalf
             /\ raw_allow = HundredAndHalf => matched = "True"
             /\ raw_allow = Hundred => matched = "False"
        /\ human_allow = human_amount(want, meta.decimals) /\ want # raw_allow =>
             matched = "False"

C6_Witness ==
  /\ pc = "done"
  /\ meta.decimals = 18
  /\ args.expected = << <<"1", "0", "0", ".", "5">> >>
  /\ raw_allow = HundredAndHalf
  /\ matched = "True"
  /\ Did("print", "MATCH")
  /\ exit_code = <<0>>

Within1(a, b) == a = b \/ AddSmall(a, 1) = b \/ AddSmall(b, 1) = a

\* C7: for every raw amount below 2^256 and decimals 0..18, the amount
\* formatted with human_amount and converted back as --expected is within 1
\* of the raw amount.
C7_RoundTripWithinOne ==
  rt.pc = "done" => rt.back.ok /\ Within1(rt.back.raw, rt.raw)

\* C8: once the allowance is fetched, the zero-allowance warning is printed
\* exactly when the raw allowance is 0, right after the raw and human lines
\* and before any expected or verdict line, and the exit code is what it
\* would be without it.
C8_ZeroWarning ==
  /\ Did("print", "zero_warning") => Did("print", "human")
  /\ pc = "done" /\ AllowanceFetched => Did("print", "human")
  /\ Did("print", "human") =>
       /\ Did("print", "zero_warning") <=> raw_allow = <<>>
       /\ Count("print", "zero_warning") <= 1
  /\ Did("print", "zero_warning") =>
       /\ Pos("print", "raw") < Pos("print", "human")
       /\ Pos("print", "zero_warning") = Pos("print", "human") + 1
       /\ \A i \in DOMAIN log :
            log[i].kind = "print"
              /\ log[i].what \in {"expected", "MATCH", "MISMATCH", "parse_warning"}
            => i > Pos("print", "zero_warning")
  /\ pc = "done" /\ AllowanceFetched =>
       exit_code = << IF ExpectedDiffers THEN 2 ELSE 0 >>

C8_Witness ==
  /\ pc = "done"
  /\ raw_allow = <<>>
  /\ Did("print", "zero_warning")
  /\ Did("print", "MISMATCH")
  /\ exit_code = <<2>>

\* The stages as the specification names them.
Stage(e) ==
  IF e.kind = "check" THEN 1
  ELSE IF e.kind = "net" /\ e.what = "is_connected" THEN 2
  ELSE IF e.kind = "net" /\ e.what \in {"name", "symbol", "decimals", "allowance"} THEN 3
  ELSE IF e.kind = "format" THEN 4
  ELSE IF e.line \in {81, 90, 95, 116} THEN 6
  ELSE 5

NetOps == {"is_connected", "name", "symbol", "decimals", "chain_id", "allowance"}

StageFailed ==
  \/ Failed("check", "rpc")
  \/ Failed("check", "token")
  \/ Failed("check", "owner")
  \/ Failed("check", "spender")
  \/ Failed("net", "is_connected")
  \/ Failed("net", "allowance")

FailureEndsRun ==
  StageFailed =>
    /\ pc = "done"
    /\ ~ log[Len(log) - 1].ok
    /\ log[Len(log)].kind = "print"
    /\ log[Len(log)].line \in {81, 90, 95, 116}

\* C9 as stated: the stages Validator, Chain Client, Contract Reader,
\* Formatter, Reporter follow one another with none starting before the
\* previous one has finished, each network operation is issued at most once,
\* and a failed validation, connection or allowance call ends the run.
C9_StagesInStatedOrder ==
  /\ \A i \in DOMAIN log, j \in DOMAIN log : i < j => Stage(log[i]) <= Stage(log[j])
  /\ \A op \in NetOps : Count("net", op) <= 1
  /\ FailureEndsRun

\* Everything main can do, in the order of its text.
ProgramOrder ==
  << <<"check", "rpc", 80>>, <<"print", "error_rpc", 81>>,
     <<"check", "token", 86>>, <<"check", "owner", 87>>, <<"check", "spender", 88>>,
     <<"print", "error_address", 90>>,
     <<"net", "is_connected", 94>>, <<"print", "error_connection", 95>>,
     <<"net", "name", 34>>, <<"net", "symbol", 38>>, <<"net", "decimals", 42>>,
     <<"print", "banner", 101>>, <<"net", "chain_id", 103>>, <<"print", "chain_id", 103>>,
     <<"print", "rpc", 106>>, <<"print", "block", 107>>, <<"print", "token", 108>>,
     <<"print", "owner", 109>>, <<"print", "spender", 110>>,
     <<"net", "allowance", 114>>,
     <<"print", "Allowance call failed (is this a valid ERC20?)", 116>>,
     <<"print", "Failed to fetch allowance", 116>>,
     <<"format", "human_amount", 119>>, <<"print", "raw", 120>>, <<"print", "human", 121>>,
     <<"print", "zero_warning", 124>>,
     <<"format", "expected_to_raw", 133>>, <<"print", "expected", 135>>,
     <<"print", "MATCH", 136>>, <<"print", "MISMATCH", 136>>,
     <<"print", "parse_warning", 138>>,
     <<"print", "elapsed", 141>>, <<"net", "chain_id", 162>>, <<"print", "json", 165>> >>

IsStep(e) == \E k \in DOMAIN ProgramOrder : ProgramOrder[k] = <<e.kind, e.what, e.line>>

Rank(e) == CHOOSE k \in DOMAIN ProgramOrder : ProgramOrder[k] = <<e.kind, e.what, e.line>>

\* C9 amended: the run goes through main strictly forward, no step twice and
\* none out of order: validation, connection probe, the three metadata calls,
\* the report header with a chain-id query, the allowance call, formatting
\* and the allowance lines, the expected-value conversion and verdict, the
\* elapsed line and, with --json, a second chain-id query and the document.
\* Every network operation is issued at most once except the chain-id query,
\* issued a second time only with --json; and a failed validation, connection
\* or allowance call is followed by its error line and nothing else.
C9_ForwardThroughMain ==
  /\ \A i \in DOMAIN log : IsStep(log[i])
  /\ \A i \in DOMAIN log : i > 1 => Rank(log[i - 1]) < Rank(log[i])
  /\ \A op \in NetOps \ {"chain_id"} : Count("net", op) <= 1
  /\ Count("net", "chain_id") <= (IF args.json THEN 2 ELSE 1)
  /\ exit_code # <<>> <=> pc = "done"
  /\ FailureEndsRun

C9_Witness ==
  /\ pc = "done"
  /\ Count("net", "chain_id") = 2
  /\ Did("format", "expected_to_raw")
  /\ Pos("print", "banner") < Pos("net", "allowance")
  /\ Pos("print", "human") < Pos("format", "expected_to_raw")
  /\ exit_code = <<0>>

\* C10: with --json and a fetched allowance exactly one JSON document is
\* emitted, as the last line, after the elapsed line and before the exit,
\* whatever the verdict; its chain_id is null exactly when the chain-id query
\* made for it failed, which leaves the exit code as it is.  Without --json,
\* or when validation, connection or the allowance call failed, there is no
\* document.
C10_JsonDocument ==
  /\ Count("print", "json") <= 1
  /\ doc # <<>> <=> Did("print", "json")
  /\ pc \in {"exit", "done"} /\ args.json /\ AllowanceFetched =>
       /\ doc # <<>>
       /\ log[Len(log)] = Printed("json", 165)
       /\ Did("print", "elapsed")
       /\ Pos("print", "elapsed") < Len(log)
       /\ doc[1].chain_id = <<>> <=>
            \E i \in DOMAIN log :
               log[i].kind = "net" /\ log[i].what = "chain_id" /\ log[i].line = 162
                 /\ ~ log[i].ok
       /\ doc[1].allowance_raw = raw_allow
       /\ doc[1].match = matched
  /\ ~ args.json \/ BadInput \/ Failed("net", "is_connected")
       \/ Failed("net", "allowance") => doc = <<>>
  /\ pc = "done" /\ AllowanceFetched =>
       exit_code = << IF matched = "False" THEN 2 ELSE 0 >>

C10_Witness ==
  /\ pc = "done"
  /\ args.json
  /\ doc # <<>>
  /\ doc[1].chain_id = <<>>
  /\ doc[1].match = "False"
  /\ log[Len(log)] = Printed("json", 165)
  /\ exit_code = <<2>>
====
